---- MODULE Spec2Model ----
(***************************************************************************)
(* Model of the hash-based repeat-variation search of                      *)
(* src/hash_dp_dna_analysis.py: reverse_complement, hash_function,         *)
(* rolling_hash, process_sequence, add_repeat_result and                   *)
(* find_repeats_hash_dp (sequential path and two-thread path).             *)
(*                                                                         *)
(* A DNA sequence is a TLA+ sequence of one-character strings; positions   *)
(* are 0-based as in the source.  A Python list is a TLA+ sequence, a dict *)
(* is a sequence of entries in insertion order, a set is a set.            *)
(***************************************************************************)
EXTENDS Integers, Sequences, FiniteSets, TLC

(***************************************************************************)
(* Bounds of the explored inputs.                                          *)
(***************************************************************************)
\* longest reference of the exhaustively enumerated small inputs
MaxRefLen == 3
\* longest query of the exhaustively enumerated small inputs
MaxQueryLen == 4
\* largest min_length argument of the small inputs
MaxMinLength == 3
\* longest reference of the tiled long inputs (those reach the thread path)
MaxLongRefLen == 22
\* how much longer than the reference a tiled long query may be
MaxLongExtra == 2

\* longest prefix of the inputs with more than EarlyStopCount repeats
MaxPrefixLen == 16
\* longest run of G that follows the prefix in those inputs
MaxSuffixLen == 3

\* longest sequence over the complementary pair whose scan is followed
MaxScanLen == 8
\* longest sequence over all symbols whose scan is followed
MaxShortScanLen == 3

\* longest reference and query of the inputs searched under colliding
\* hashes
MaxCollideRefLen == 2
MaxCollideQueryLen == 4

\* length of the references compared with the brute-force search
MaxCompareLen == 5

\* symbols of the small inputs: a complementary pair and an unknown symbol
Alphabet == {"A", "T", "N"}
\* two symbols outside A, C, G, T: both are encoded as 0, so all windows of
\* one length over them have the same hash value
UnknownAlphabet == {"N", "X"}
\* a complementary pair alone
PairAlphabet == {"A", "T"}
\* the four bases and an unknown symbol
ScanAlphabet == {"A", "C", "G", "T", "N"}
\* symbols of the tiles of the long inputs
TileAlphabet == {"A", "T"}

\* max_length=None of the source
None == -1

(***************************************************************************)
(* Python helpers.                                                         *)
(***************************************************************************)
Min2(a, b) == IF a <= b THEN a ELSE b

\* s[k] does not raise IndexError: k is a 0-based index, negative ones
\* count from the end
valid_index(s, k) == 0 - Len(s) <= k /\ k < Len(s)

\* s[start : start+length] for 0 <= start, 0 <= length
Slice(s, start, length) ==
    SubSeq(s, start + 1, Min2(start + length, Len(s)))

\* (a * b) % m for a, b >= 0, computed by doubling over the smaller factor
\* so that no intermediate value leaves the 32-bit range of TLC's integers
\* (m < 2^30)
RECURSIVE MulMod(_, _, _)
MulMod(a, b, m) ==
    IF a = 0 \/ b = 0 THEN 0
    ELSE IF a < b THEN MulMod(b, a, m)
    ELSE LET h == MulMod(a, b \div 2, m)
             d == (h + h) % m
         IN  IF b % 2 = 1 THEN (d + (a % m)) % m ELSE d

RECURSIVE bezout(_, _)
\* << x, y >> with a * x + b * y = gcd(a, b), by the extended Euclidean
\* algorithm
bezout(a, b) ==
    IF b = 0 THEN << 1, 0 >>
    ELSE LET r == bezout(b, a % b)
         IN  << r[2], r[1] - (a \div b) * r[2] >>

\* the inverse of b modulo m, for b and m coprime
mod_inverse(b, m) == bezout(b % m, m)[1] % m

RECURSIVE pow_loop(_, _, _, _)
\* acc times b to the power e, modulo m, for e >= 0 (acc is never
\* negative: the test makes TLC evaluate it before the next iteration)
pow_loop(b, e, acc, m) ==
    IF acc < 0 \/ e = 0 THEN acc
    ELSE pow_loop(b, e - 1, MulMod(acc, b % m, m), m)

\* pow(b, e, m); for e < 0 Python raises the inverse of b modulo m to the
\* power -e
PowMod(b, e, m) ==
    IF e < 0
    THEN LET inv == mod_inverse(b, m)
         IN  IF inv = 0 THEN 0 ELSE pow_loop(inv, 0 - e, 1 % m, m)
    ELSE pow_loop(b, e, 1 % m, m)

(***************************************************************************)
(* reverse_complement, hash_function, rolling_hash.                        *)
(***************************************************************************)
\* complement with every symbol outside A, C, G, T turned into N
complement_unknown_as_N(base) ==
    CASE base = "A" -> "T"
      [] base = "T" -> "A"
      [] base = "C" -> "G"
      [] base = "G" -> "C"
      [] OTHER -> "N"

complement(base) ==
    CASE base = "A" -> "T"
      [] base = "T" -> "A"
      [] base = "C" -> "G"
      [] base = "G" -> "C"
      [] OTHER -> base

reverse_complement(sequence) ==
    [i \in 1..Len(sequence) |-> complement(sequence[Len(sequence) + 1 - i])]

BASE_VAL(base) ==
    CASE base = "A" -> 1
      [] base = "C" -> 2
      [] base = "G" -> 3
      [] base = "T" -> 4
      [] OTHER -> 0

base_num == 101

mod == 1000000007

RECURSIVE hash_loop(_, _, _, _, _)
\* the loop of hash_function from the i-th symbol on, hash_val being the
\* value so far (never negative: the test makes TLC evaluate it before the
\* next iteration)
hash_loop(sequence, i, hash_val, b, m) ==
    IF hash_val < 0 \/ i > Len(sequence) THEN hash_val
    ELSE hash_loop(sequence, i + 1,
                   (MulMod(hash_val, b, m) + BASE_VAL(sequence[i])) % m, b, m)

hash_function(sequence, b, m) == hash_loop(sequence, 1, 0, b, m)

\* rolling_hash without the removal of the leaving symbol
rolling_hash_keep_leaving(prev_hash, prev_char, next_char, length, b, m) ==
    (MulMod(prev_hash, b, m) + BASE_VAL(next_char)) % m

\* rolling_hash with the leaving symbol weighted base^length
rolling_hash_power_off_by_one(prev_hash, prev_char, next_char, length, b, m) ==
    LET prev_val == BASE_VAL(prev_char)
        next_val == BASE_VAL(next_char)
        highest_digit_val == MulMod(prev_val, PowMod(b, length, m), m)
    IN  (MulMod((prev_hash - highest_digit_val + m) % m, b, m) + next_val) % m

rolling_hash(prev_hash, prev_char, next_char, length, b, m) ==
    LET prev_val == BASE_VAL(prev_char)
        next_val == BASE_VAL(next_char)
        highest_digit_val == MulMod(prev_val, PowMod(b, length - 1, m), m)
    IN  (MulMod((prev_hash - highest_digit_val + m) % m, b, m) + next_val) % m

(***************************************************************************)
(* The per-length window index (ref_hash_map / query_hash_map): a dict     *)
(* from hash value to the list of start positions, kept as the sequence of *)
(* its entries in insertion order.                                         *)
(***************************************************************************)
index_has(index, h) == \E j \in 1..Len(index) : index[j].hash = h

index_get(index, h) ==
    LET j == CHOOSE k \in 1..Len(index) : index[k].hash = h
    IN  index[j].positions

\* a dict whose clear() has no effect
cleared_kept(index) == index

\* ref_hash_map.clear()
cleared(index) == << >>

\* index_insert with the position put at the front of the list
index_insert_front(index, h, pos) ==
    IF index_has(index, h)
    THEN [j \in 1..Len(index) |->
            IF index[j].hash = h
            THEN [index[j] EXCEPT !.positions = << pos >> \o @]
            ELSE index[j]]
    ELSE Append(index, [hash |-> h, positions |-> << pos >>])

\* if h not in map: map[h] = [] ; map[h].append(pos)
index_insert(index, h, pos) ==
    IF index_has(index, h)
    THEN [j \in 1..Len(index) |->
            IF index[j].hash = h
            THEN [index[j] EXCEPT !.positions = Append(@, pos)]
            ELSE index[j]]
    ELSE Append(index, [hash |-> h, positions |-> << pos >>])

RECURSIVE index_scan(_, _, _, _, _, _, _)
\* the scan loop from position i on: curr_hash is the hash of the window at
\* position i - 1 and index the dict so far (the first two tests never
\* hold: they make TLC evaluate both before the next iteration)
index_scan(sequence, length, i, curr_hash, index, b, m) ==
    IF curr_hash < 0 \/ Len(index) = 0 \/ i > Len(sequence) - length
    THEN index
    ELSE LET h == rolling_hash(curr_hash, sequence[i], sequence[i + length],
                               length, b, m)
         IN  index_scan(sequence, length, i + 1, h,
                        index_insert(index, h, i), b, m)

\* the dict built for one length: the first window is hashed directly, the
\* others by rolling; empty when the sequence is too short
build_index(sequence, length, b, m) ==
    IF Len(sequence) >= length
    THEN LET h0 == hash_function(Slice(sequence, 0, length), b, m)
         IN  index_scan(sequence, length, 1, h0,
                        index_insert(<< >>, h0, 0), b, m)
    ELSE << >>

(***************************************************************************)
(* add_repeat_result.                                                      *)
(***************************************************************************)
is_contained(results, ref_positions, is_reversed, length) ==
    \E k \in 1..Len(results) :
        /\ results[k].reversed = is_reversed
        /\ Len(results[k].sequence) > length
        /\ \A i \in 1..Len(ref_positions) :
              \E j \in 1..Len(results[k].ref_positions) :
                  results[k].ref_positions[j] = ref_positions[i]

add_repeat_result(results, subseq, ref_positions, query_positions, is_reversed, repeat_count, length) ==
    IF \E k \in 1..Len(results) : results[k].sequence = subseq
    THEN results
    ELSE IF is_contained(results, ref_positions, is_reversed, length)
    THEN results
    ELSE Append(results, [sequence |-> subseq,
                          ref_positions |-> ref_positions,
                          query_positions |-> query_positions,
                          repeat_count |-> repeat_count,
                          reversed |-> is_reversed])

(***************************************************************************)
(* process_sequence, one candidate (hash_val, ref_pos) at a time.          *)
(***************************************************************************)
RECURSIVE flatten_candidates(_, _, _, _)
\* the (hash_val, ref_pos) pairs the loops of lines 212-215 visit from the
\* k-th entry of ref_hash_map on, in visiting order, each with
\* query_hash_map[hash_val], appended to those visited before
flatten_candidates(ref_index, query_index, k, before) ==
    IF Len(before) < 0 \/ k > Len(ref_index) THEN before
    ELSE LET e == ref_index[k]
         IN  flatten_candidates(ref_index, query_index, k + 1,
                 IF index_has(query_index, e.hash)
                 THEN before \o [i \in 1..Len(e.positions) |->
                                [hash_val |-> e.hash, ref_pos |-> e.positions[i],
                                 bucket |-> index_get(query_index, e.hash)]]
                 ELSE before)

\* the candidates of one window length when the locals base_num and mod of
\* process_sequence are b and m; none when query is too short
candidates_hashed(reference, query, length, b, m) ==
    IF Len(query) >= length
    THEN LET ref_index == build_index(reference, length, b, m)
             query_index == build_index(query, length, b, m)
         IN  flatten_candidates(ref_index, query_index, 1, << >>)
    ELSE << >>

\* the candidates of one window length
candidates(reference, query, length) ==
    candidates_hashed(reference, query, length, base_num, mod)

\* verified_positions without the comparison of line 227: every position of
\* the bucket is taken
verified_positions_unchecked(ref_subseq, query, length, bucket) == bucket

\* lines 222-228: the positions of the query bucket that pass the
\* exact comparison with ref_subseq
verified_positions(ref_subseq, query, length, bucket) ==
    SelectSeq(bucket, LAMBDA q : Slice(query, q, length) = ref_subseq)

\* lines 172-186 and 189-205: one of the subscripts s[i-1], s[i+length-1]
\* of the scan over s is out of range (never for length >= 0)
scan_raises(s, length) ==
    /\ Len(s) >= length
    /\ \E i \in 1..(Len(s) - length) :
          ~ valid_index(s, i - 1) \/ ~ valid_index(s, i + length - 1)

\* building the two indexes of one length raises IndexError
index_error(reference, query, length) ==
    scan_raises(reference, length) \/ scan_raises(query, length)

\* query_positions of one candidate
matching_positions(reference, query, length, cand) ==
    verified_positions(Slice(reference, cand.ref_pos, length), query, length,
                       cand.bucket)

\* has_repeat with the threshold of line 231 off by one
has_repeat_any(query_positions) == Len(query_positions) > 0

\* line 231
has_repeat(query_positions) == Len(query_positions) > 1

\* line 219: the candidate is skipped when its sequence is in the seen set
already_seen(unique_sequences, ref_subseq) == ref_subseq \in unique_sequences

\* lines 231-240 for one candidate that was not skipped at line 219
commit_candidate(st, reference, query, is_reversed, length, cand) ==
    LET ref_subseq == Slice(reference, cand.ref_pos, length)
        query_positions == matching_positions(reference, query, length, cand)
    IN  IF has_repeat(query_positions)
        THEN [results |-> add_repeat_result(st.results, ref_subseq,
                              << cand.ref_pos >>, query_positions, is_reversed,
                              Len(query_positions) - 1, length),
              unique_sequences |-> st.unique_sequences \cup {ref_subseq}]
        ELSE st

\* lines 215-240 for one candidate
process_candidate(st, reference, query, is_reversed, length, cand) ==
    IF already_seen(st.unique_sequences, Slice(reference, cand.ref_pos, length))
    THEN st
    ELSE commit_candidate(st, reference, query, is_reversed, length, cand)

RECURSIVE process_candidates(_, _, _, _, _, _, _)
\* the candidates of one length from the k-th on
process_candidates(st, reference, query, is_reversed, length, cands, k) ==
    IF Len(st.results) < 0 \/ k > Len(cands) THEN st
    ELSE process_candidates(
             process_candidate(st, reference, query, is_reversed, length,
                               cands[k]),
             reference, query, is_reversed, length, cands, k + 1)

\* lines 168-240: the body of the length loop, base_num and mod being b, m
process_length_hashed(st, reference, query, is_reversed, length, b, m) ==
    LET cands == candidates_hashed(reference, query, length, b, m)
    IN  process_candidates(st, reference, query, is_reversed, length,
                           cands, 1)

\* lines 168-240: the body of the length loop
process_length(st, reference, query, is_reversed, length) ==
    process_length_hashed(st, reference, query, is_reversed, length,
                          base_num, mod)

EarlyStopCount == 100

EarlyStopSpan == 5

\* line 165: the early-stop test at the head of the length loop
early_stop(local_results, length, min_len) ==
    Len(local_results) > EarlyStopCount /\ length < min_len + EarlyStopSpan

\* clamp_max_length without the clamp of a caller-supplied max_length to
\* the sequence lengths
clamp_max_length_unclamped(max_len, ref_len, query_len) ==
    IF max_len = None THEN Min2(ref_len, query_len) ELSE max_len

\* lines 73-76 and 149-152
clamp_max_length(max_len, ref_len, query_len) ==
    IF max_len = None THEN Min2(ref_len, query_len)
    ELSE Min2(max_len, Min2(ref_len, query_len))

\* past_last_length with the upper bound of the range taken as exclusive
past_last_length_exclusive(length, max_len) == length >= max_len

\* line 163: range(min_length, max_length + 1) is exhausted, max_length
\* itself being the last length of the range
past_last_length(length, max_len) == length > max_len

RECURSIVE length_loop_hashed(_, _, _, _, _, _, _, _, _)
\* the for loop of line 163 from `length` on, base_num and mod being b, m
length_loop_hashed(st, reference, query, is_reversed, length, min_len, max_len, b, m) ==
    IF past_last_length(length, max_len) THEN st
    ELSE IF early_stop(st.results, length, min_len) THEN st
    ELSE length_loop_hashed(
             process_length_hashed(st, reference, query, is_reversed, length,
                                   b, m),
             reference, query, is_reversed, length + 1, min_len, max_len, b, m)

\* the for loop of line 163 from `length` on
length_loop(st, reference, query, is_reversed, length, min_len, max_len) ==
    length_loop_hashed(st, reference, query, is_reversed, length, min_len,
                       max_len, base_num, mod)

\* process_sequence ends with an IndexError: the loop starts at min_len, so
\* an out-of-range subscript is met in its first iteration or never
process_raises(reference, query, results, min_len, max_len) ==
    /\ min_len <= clamp_max_length(max_len, Len(reference), Len(query))
    /\ ~ early_stop(results, min_len, min_len)
    /\ index_error(reference, query, min_len)

\* process_sequence called with a results list and a seen set; the value is
\* the pair of both after the call (both are mutated in place)
process_sequence(reference, query, is_reversed, results, min_len, max_len, unique_sequences) ==
    length_loop([results |-> results, unique_sequences |-> unique_sequences],
                reference, query, is_reversed, min_len, min_len,
                clamp_max_length(max_len, Len(reference), Len(query)))

\* process_sequence with its locals base_num and mod set to b and m
process_sequence_hashed(reference, query, is_reversed, results, min_len, max_len, unique_sequences, b, m) ==
    length_loop_hashed(
        [results |-> results, unique_sequences |-> unique_sequences],
        reference, query, is_reversed, min_len, min_len,
        clamp_max_length(max_len, Len(reference), Len(query)), b, m)

(***************************************************************************)
(* results.sort(key=len(sequence), reverse=True): stable.                  *)
(***************************************************************************)
\* the greatest len(sequence) of a list of records
longest(list) ==
    IF list = << >> THEN 0
    ELSE LET lens == {Len(list[i].sequence) : i \in 1..Len(list)}
         IN  CHOOSE n \in lens : \A k \in lens : k <= n

\* the records of list whose sequence has length n, in list order
of_length(list, n) == SelectSeq(list, LAMBDA r : Len(r.sequence) = n)

Reverse(s) == [i \in 1..Len(s) |-> s[Len(s) + 1 - i]]

RECURSIVE groups_reversed(_, _, _)
\* sorted followed by the records of length n, n - 1, ..., 0, the records
\* of one length in reverse list order
groups_reversed(list, n, sorted) ==
    IF Len(sorted) < 0 \/ n < 0 THEN sorted
    ELSE groups_reversed(list, n - 1, sorted \o Reverse(of_length(list, n)))

RECURSIVE groups(_, _, _)
\* sorted followed by the records of length n, n - 1, ..., 0, the records
\* of one length in list order
groups(list, n, sorted) ==
    IF Len(sorted) < 0 \/ n < 0 THEN sorted
    ELSE groups(list, n - 1, sorted \o of_length(list, n))

\* the list sorted as sorted(..., key=len)[::-1] would: records of equal
\* length come out in reverse order
sort_ascending_reversed(list) == groups_reversed(list, longest(list), << >>)

\* the stable sort: longer records first, records of equal length in list
\* order
sort_by_length_desc(list) == groups(list, longest(list), << >>)

(***************************************************************************)
(* find_repeats_brute_force (brute_force_dna_analysis.py), for min_length  *)
(* >= 1: every window of reference, by start position and then by length,  *)
(* is looked up in the comparison sequence and in reference itself.        *)
(***************************************************************************)
\* the loops around str.find: every start position of subseq in s, in
\* increasing order, overlapping occurrences included
find_all(s, subseq) ==
    SelectSeq([k \in 1..(Len(s) + 1) |-> k - 1],
              LAMBDA p : /\ p + Len(subseq) <= Len(s)
                         /\ Slice(s, p, Len(subseq)) = subseq)

\* occurs_once with several occurrences in reference accepted
occurs_once_or_more(ref_positions) == Len(ref_positions) >= 1

\* len(ref_positions) == 1
occurs_once(ref_positions) == Len(ref_positions) = 1

\* the body of the inner loop for one (ref_start, length)
brute_window(st, reference, seq, is_reversed, ref_start, length) ==
    LET ref_subseq == Slice(reference, ref_start, length)
        positions == find_all(seq, ref_subseq)
        ref_positions == find_all(reference, ref_subseq)
    IN  IF length = 1 THEN st
        ELSE IF ref_subseq \in st.unique_sequences THEN st
        ELSE IF occurs_once(ref_positions) /\ Len(positions) > 1
        THEN [results |-> Append(st.results,
                              [sequence |-> ref_subseq,
                               positions |-> positions,
                               count |-> Len(positions),
                               reversed |-> is_reversed]),
              unique_sequences |-> st.unique_sequences \cup {ref_subseq}]
        ELSE st

RECURSIVE brute_lengths(_, _, _, _, _, _, _)
\* for length in range(min_length, min(max_length + 1, ref_len - ref_start
\* + 1)), from `length` on; stop is the exclusive end of the range
brute_lengths(st, reference, seq, is_reversed, ref_start, length, stop) ==
    IF Len(st.results) < 0 \/ length >= stop THEN st
    ELSE brute_lengths(
             brute_window(st, reference, seq, is_reversed, ref_start, length),
             reference, seq, is_reversed, ref_start, length + 1, stop)

RECURSIVE brute_starts(_, _, _, _, _, _, _)
\* for ref_start in range(ref_len - min_length + 1), from ref_start on
brute_starts(st, reference, seq, is_reversed, ref_start, min_len, max_len) ==
    IF Len(st.results) < 0 \/ ref_start >= Len(reference) - min_len + 1
    THEN st
    ELSE brute_starts(
             brute_lengths(st, reference, seq, is_reversed, ref_start, min_len,
                           Min2(max_len + 1, Len(reference) - ref_start + 1)),
             reference, seq, is_reversed, ref_start + 1, min_len, max_len)

\* the effective max_length of the brute-force search
brute_max_length(max_len, ref_len, query_len) ==
    IF max_len = None THEN Min2(ref_len, query_len)
    ELSE Min2(max_len, Min2(ref_len, query_len))

\* the list find_repeats_brute_force returns
find_repeats_brute_force(reference, query, min_len, max_len_arg) ==
    LET max_len == brute_max_length(max_len_arg, Len(reference), Len(query))
        fwd == brute_starts([results |-> << >>, unique_sequences |-> {}],
                            reference, query, FALSE, 0, min_len, max_len)
        rev == brute_starts(fwd, reference, reverse_complement(query), TRUE,
                            0, min_len, max_len)
    IN  sort_by_length_desc(rev.results)

(***************************************************************************)
(* State of one call of find_repeats_hash_dp.                              *)
(***************************************************************************)
VARIABLES
    reference,          \* argument
    query,              \* argument
    min_length,         \* argument
    max_length_arg,     \* argument max_length (None when omitted)
    use_parallel,       \* argument
    pc,                 \* position of the calling thread
    max_length,         \* local max_length after lines 73-76
    results,            \* local list results
    unique_sequences,   \* the seen set handed to both passes
    query_rev,          \* local query_rev
    task,               \* the two submitted process_sequence calls
    outcome,            \* how the call ended: "pending" until it ends
    scan                \* the scan of reference that builds ref_hash_map,
                        \* followed on its own step by step

vars == << reference, query, min_length, max_length_arg, use_parallel, pc,
           max_length, results, unique_sequences, query_rev, task, outcome,
           scan >>

inputs == << reference, query, min_length, max_length_arg, use_parallel >>

Orientations == {"forward", "reverse"}

\* line 85: the thread path is taken only above this effective max_length
ParallelThreshold == 20

\* all sequences over an alphabet of length 0..n
Strs(alphabet, n) == UNION {[1..k -> alphabet] : k \in 0..n}

\* the first n symbols of u repeated without end
Tile(u, n) == [i \in 1..n |-> u[((i - 1) % Len(u)) + 1]]

\* the repeated units of the long inputs
Tiles == UNION {[1..k -> TileAlphabet] : k \in 1..2}

\* caller-supplied max_length values of the small inputs
SmallCaps == {None, 2}

\* max_length omitted, positive, zero and negative
RangeCaps == {None, 2, 0, -2}

\* min_length arguments that are not positive
NonPositiveMinLengths == {-1, 0}

IdleTask == [pc |-> "idle", length |-> 0, cands |-> << >>, ci |-> 0,
             local_results |-> << >>]

\* a task as submitted: at the head of its length loop, with a list of its own
StartedTask(min_len) == [pc |-> "loop", length |-> min_len, cands |-> << >>,
                         ci |-> 0, local_results |-> << >>]

\* the scan is not followed
IdleScan == [pc |-> "idle", length |-> 0, i |-> 0, curr_hash |-> 0,
             ref_hash_map |-> << >>]

InitLocals ==
    /\ pc = "call"
    /\ max_length = None
    /\ results = << >>
    /\ unique_sequences = {}
    /\ query_rev = << >>
    /\ task = [o \in Orientations |-> IdleTask]
    /\ outcome = "pending"

\* every shorter input over the complementary pair and an unknown symbol,
\* called with the default max_length and use_parallel
InitSmall ==
    /\ reference \in Strs(Alphabet, MaxRefLen - 1)
    /\ query \in Strs(Alphabet, MaxQueryLen - 1)
    /\ min_length \in 1..MaxMinLength
    /\ max_length_arg = None
    /\ use_parallel = TRUE

\* every short input over the complementary pair, with and without a
\* caller-supplied max_length, with and without use_parallel
InitOptions ==
    /\ reference \in Strs(PairAlphabet, MaxRefLen)
    /\ query \in Strs(PairAlphabet, MaxQueryLen)
    /\ min_length \in 1..MaxMinLength
    /\ max_length_arg \in SmallCaps
    /\ use_parallel \in BOOLEAN

\* every shorter input over the complementary pair, called with positive and
\* non-positive min_length and max_length
InitRange ==
    /\ reference \in Strs(PairAlphabet, MaxRefLen - 1)
    /\ query \in Strs(PairAlphabet, MaxQueryLen - 1)
    /\ min_length \in NonPositiveMinLengths \cup 1..MaxMinLength
    /\ max_length_arg \in RangeCaps
    /\ use_parallel = FALSE

\* every short input over the unknown symbols: all windows collide
InitUnknown ==
    /\ reference \in Strs(UnknownAlphabet, MaxRefLen)
    /\ query \in Strs(UnknownAlphabet, MaxQueryLen)
    /\ min_length \in 1..MaxMinLength
    /\ max_length_arg = None
    /\ use_parallel = FALSE

\* periodic inputs long enough for the thread path, searched at the one or
\* two greatest window lengths
InitLong ==
    \E u \in Tiles, v \in Tiles :
    \E n \in (ParallelThreshold + 1)..MaxLongRefLen :
    \E m \in n..(n + MaxLongExtra) :
        /\ reference = Tile(u, n)
        /\ query = Tile(v, m)
        /\ min_length \in {-1} \cup (n - 1)..n
        /\ max_length_arg = None
        /\ use_parallel \in BOOLEAN

\* min_length of a call that does not give it
DefaultMinLength == 3

Example1Reference == << "A", "C", "G", "T", "A", "C", "G", "T" >>

Example1Query == Example1Reference \o Example1Reference

Example2Reference == << "A", "A", "C", "C", "G", "G", "T", "T" >>

Example2Query ==
    reverse_complement(Example2Reference)
        \o reverse_complement(Example2Reference)

\* the two calls of the worked examples, with the default max_length and
\* use_parallel
InitExamples ==
    /\ \/ /\ reference = Example1Reference
          /\ query = Example1Query
          /\ min_length = 4
       \/ /\ reference = Example2Reference
          /\ query = Example2Query
          /\ min_length = DefaultMinLength
    /\ max_length_arg = None
    /\ use_parallel = TRUE

\* inputs over the complementary pair long enough to hold, at once, a
\* sequence repeated in reference and sequences unique in it that the query
\* repeats forward and reversed; searched sequentially from length 2
InitCompare ==
    /\ reference \in [1..MaxCompareLen -> PairAlphabet]
    /\ query \in [1..(MaxCompareLen + 1) -> PairAlphabet]
    /\ min_length = 2
    /\ max_length_arg = None
    /\ use_parallel = FALSE

Init ==
    /\ \/ InitSmall \/ InitOptions \/ InitRange \/ InitUnknown \/ InitLong
       \/ InitExamples
       \/ InitCompare
    /\ InitLocals
    /\ scan = IdleScan

(***************************************************************************)
(* find_repeats_hash_dp.                                                   *)
(***************************************************************************)
\* range_is_empty with the comparison of line 79 off by one
range_is_empty_off_by_one(min_len, max_len) == min_len > max_len + 1

\* line 79: the range of window lengths is empty
range_is_empty(min_len, max_len) == min_len > max_len

\* line 85: the two passes run as two threads
takes_thread_path(parallel, max_len) == parallel /\ max_len > ParallelThreshold

\* lines 63-85: locals, effective max_length, early return (an ordinary
\* return of the empty list), choice of path
Call ==
    /\ pc = "call"
    /\ LET eff == clamp_max_length(max_length_arg, Len(reference), Len(query))
       IN  /\ max_length' = eff
           /\ pc' = IF range_is_empty(min_length, eff) THEN "done"
                    ELSE IF takes_thread_path(use_parallel, eff)
                         THEN "submit_forward"
                         ELSE "seq_forward"
           /\ outcome' = IF range_is_empty(min_length, eff) THEN "returned"
                         ELSE outcome
    /\ UNCHANGED << scan, inputs, results, unique_sequences, query_rev, task >>

\* line 107; an exception raised in the pass ends the call
SeqForward ==
    /\ pc = "seq_forward"
    /\ IF process_raises(reference, query, results, min_length, max_length)
       THEN /\ pc' = "done"
            /\ outcome' = "IndexError"
            /\ UNCHANGED << results, unique_sequences >>
       ELSE LET st == process_sequence(reference, query, FALSE, results,
                                       min_length, max_length, unique_sequences)
            IN  /\ results' = st.results
                /\ unique_sequences' = st.unique_sequences
                /\ pc' = "seq_reverse"
                /\ outcome' = outcome
    /\ UNCHANGED << scan, inputs, max_length, query_rev, task >>

\* lines 110-111
SeqReverse ==
    /\ pc = "seq_reverse"
    /\ query_rev' = reverse_complement(query)
    /\ IF process_raises(reference, query_rev', results, min_length, max_length)
       THEN /\ pc' = "done"
            /\ outcome' = "IndexError"
            /\ UNCHANGED << results, unique_sequences >>
       ELSE LET st == process_sequence(reference, query_rev', TRUE, results,
                                       min_length, max_length, unique_sequences)
            IN  /\ results' = st.results
                /\ unique_sequences' = st.unique_sequences
                /\ pc' = "sort"
                /\ outcome' = outcome
    /\ UNCHANGED << scan, inputs, max_length, task >>

\* lines 88-90: the forward task starts with an empty list of its own
SubmitForward ==
    /\ pc = "submit_forward"
    /\ task' = [task EXCEPT !["forward"] = StartedTask(min_length)]
    /\ pc' = "submit_reverse"
    /\ UNCHANGED << scan, inputs, max_length, results, unique_sequences, query_rev,
                    outcome >>

\* lines 93-96
SubmitReverse ==
    /\ pc = "submit_reverse"
    /\ query_rev' = reverse_complement(query)
    /\ task' = [task EXCEPT !["reverse"] = StartedTask(min_length)]
    /\ pc' = "join"
    /\ UNCHANGED << scan, inputs, max_length, results, unique_sequences, outcome >>

\* the comparison sequence and the is_reversed flag of a task
task_query(o) == IF o = "forward" THEN query ELSE query_rev

task_reversed(o) == o = "reverse"

\* lines 163-215 in a task: head of the length loop, then both indexes of
\* this length are built and the iteration over the reference index starts
TaskLoop(o) ==
    /\ task[o].pc = "loop"
    /\ IF \/ past_last_length(task[o].length,
               clamp_max_length(max_length, Len(reference), Len(task_query(o))))
          \/ early_stop(task[o].local_results, task[o].length, min_length)
       THEN task' = [task EXCEPT ![o].pc = "done", ![o].cands = << >>]
       ELSE IF index_error(reference, task_query(o), task[o].length)
       THEN task' = [task EXCEPT ![o].pc = "raised", ![o].cands = << >>]
       ELSE task' = [task EXCEPT ![o].pc = "cand", ![o].ci = 1,
                                 ![o].cands = candidates(reference,
                                                  task_query(o), task[o].length)]
    /\ UNCHANGED << scan, inputs, pc, max_length, results, unique_sequences,
                    query_rev, outcome >>

\* the candidates of this length are exhausted: next length
TaskNextLength(o) ==
    /\ task[o].pc = "cand"
    /\ task[o].ci > Len(task[o].cands)
    /\ task' = [task EXCEPT ![o].pc = "loop", ![o].length = @ + 1]
    /\ UNCHANGED << scan, inputs, pc, max_length, results, unique_sequences,
                    query_rev, outcome >>

\* lines 216-231 in a task: the read of the shared seen set, then the
\* task-local comparison of the windows
TaskCheck(o) ==
    /\ task[o].pc = "cand"
    /\ task[o].ci <= Len(task[o].cands)
    /\ LET cand == task[o].cands[task[o].ci]
           ref_subseq == Slice(reference, cand.ref_pos, task[o].length)
       IN  IF already_seen(unique_sequences, ref_subseq)
           THEN task' = [task EXCEPT ![o].ci = @ + 1]
           ELSE IF has_repeat(matching_positions(reference, task_query(o),
                                                 task[o].length, cand))
           THEN task' = [task EXCEPT ![o].pc = "commit"]
           ELSE task' = [task EXCEPT ![o].ci = @ + 1]
    /\ UNCHANGED << scan, inputs, pc, max_length, results, unique_sequences,
                    query_rev, outcome >>

\* lines 232-240 in a task: append to the task's list, write the seen set
TaskCommit(o) ==
    /\ task[o].pc = "commit"
    /\ LET cand == task[o].cands[task[o].ci]
           st == commit_candidate(
                     [results |-> task[o].local_results,
                      unique_sequences |-> unique_sequences],
                     reference, task_query(o), task_reversed(o),
                     task[o].length, cand)
       IN  /\ task' = [task EXCEPT ![o].local_results = st.results,
                                   ![o].pc = "cand", ![o].ci = @ + 1]
           /\ unique_sequences' = st.unique_sequences
    /\ UNCHANGED << scan, inputs, pc, max_length, results, query_rev, outcome >>

\* lines 99-104: both futures are awaited, the lists are concatenated;
\* result() re-raises the exception of a task that raised, and the call
\* ends with it once the executor has waited for both tasks
Join ==
    /\ pc = "join"
    /\ \A o \in Orientations : task[o].pc \in {"done", "raised"}
    /\ IF \E o \in Orientations : task[o].pc = "raised"
       THEN /\ pc' = "done"
            /\ outcome' = "IndexError"
            /\ UNCHANGED results
       ELSE /\ results' = results \o task["forward"].local_results
                                 \o task["reverse"].local_results
            /\ pc' = "sort"
            /\ outcome' = outcome
    /\ UNCHANGED << scan, inputs, max_length, unique_sequences, query_rev, task >>

\* lines 114-119
SortAndReturn ==
    /\ pc = "sort"
    /\ results' = sort_by_length_desc(results)
    /\ pc' = "done"
    /\ outcome' = "returned"
    /\ UNCHANGED << scan, inputs, max_length, unique_sequences, query_rev, task >>

Next ==
    \/ Call
    \/ SeqForward
    \/ SeqReverse
    \/ SubmitForward
    \/ SubmitReverse
    \/ \E o \in Orientations : TaskLoop(o)
    \/ \E o \in Orientations : TaskNextLength(o)
    \/ \E o \in Orientations : TaskCheck(o)
    \/ \E o \in Orientations : TaskCommit(o)
    \/ Join
    \/ SortAndReturn

Spec == Init /\ [][Next]_vars

(***************************************************************************)
(* Calls that accept about EarlyStopCount records.  The reference is a     *)
(* prefix without G, all of whose windows of length 3 or more differ,      *)
(* followed by a run of G; the query is the prefix twice followed by as    *)
(* many C as there are G in two such runs.  Every window of the prefix is  *)
(* a forward repeat, the windows of the run of G are reverse repeats.      *)
(* max_length stays below ParallelThreshold: these calls take the          *)
(* sequential path.                                                        *)
(***************************************************************************)
ManyWindows ==
    << "T", "T", "A", "T", "C", "C", "A", "A",
       "T", "A", "C", "C", "T", "C", "T", "T" >>

EarlyStopInputs ==
    \E k \in (MaxPrefixLen - 2)..MaxPrefixLen :
    \E j \in 1..MaxSuffixLen :
        LET prefix == Tile(ManyWindows, k)
            run == Tile(<< "G" >>, j)
        IN  /\ reference = prefix \o run
            /\ query = prefix \o prefix \o reverse_complement(run \o run)
            /\ min_length \in 1..MaxMinLength
            /\ max_length_arg = None
            /\ use_parallel \in BOOLEAN

NextSequential ==
    \/ Call
    \/ SeqForward
    \/ SeqReverse
    \/ SortAndReturn

InitEarlyStop == EarlyStopInputs /\ InitLocals /\ scan = IdleScan

SpecEarlyStop == InitEarlyStop /\ [][NextSequential]_vars

(***************************************************************************)
(* The sequential path on every short input over A, T and N, whose windows *)
(* collide under small moduli (A is 1, T is 4, N is 0).                    *)
(***************************************************************************)
CollideInputs ==
    /\ reference \in Strs(Alphabet, MaxCollideRefLen)
    /\ query \in Strs(Alphabet, MaxCollideQueryLen)
    /\ min_length \in 1..2
    /\ max_length_arg = None
    /\ use_parallel = FALSE

InitCollide == CollideInputs /\ InitLocals /\ scan = IdleScan

SpecCollide == InitCollide /\ [][NextSequential]_vars

(***************************************************************************)
(* The scan that builds ref_hash_map, one window per step, for every length *)
(* from 1 to the length of reference (the query is as long as reference,   *)
(* so that no length is cut off).  The dict is the same object for every   *)
(* length and is cleared when a length begins.                             *)
(***************************************************************************)
ScanInputs ==
    /\ reference \in Strs(ScanAlphabet, MaxShortScanLen)
                        \cup Strs(PairAlphabet, MaxScanLen)
    /\ query = reference
    /\ min_length = 1
    /\ max_length_arg = None
    /\ use_parallel = FALSE

InitScan ==
    /\ ScanInputs
    /\ InitLocals
    /\ scan = [pc |-> "length", length |-> min_length, i |-> 0,
               curr_hash |-> 0, ref_hash_map |-> << >>]

\* ref_hash_map.clear(); the first window is hashed directly and entered
ScanFirstWindow ==
    /\ scan.pc = "length"
    /\ Len(reference) >= scan.length
    /\ LET curr_hash == hash_function(Slice(reference, 0, scan.length),
                                      base_num, mod)
       IN  scan' = [scan EXCEPT
                      !.pc = "roll",
                      !.i = 1,
                      !.curr_hash = curr_hash,
                      !.ref_hash_map = index_insert(cleared(@), curr_hash, 0)]
    /\ UNCHANGED << inputs, pc, max_length, results, unique_sequences,
                    query_rev, task, outcome >>

\* one iteration of  for i in range(1, ref_len - length + 1)
ScanRoll ==
    /\ scan.pc = "roll"
    /\ scan.i <= Len(reference) - scan.length
    /\ LET curr_hash == rolling_hash(scan.curr_hash, reference[scan.i],
                                     reference[scan.i + scan.length],
                                     scan.length, base_num, mod)
       IN  scan' = [scan EXCEPT
                      !.i = @ + 1,
                      !.curr_hash = curr_hash,
                      !.ref_hash_map = index_insert(@, curr_hash, scan.i)]
    /\ UNCHANGED << inputs, pc, max_length, results, unique_sequences,
                    query_rev, task, outcome >>

\* the scan loop is over: the next length of the length loop, if any
ScanNextLength ==
    /\ scan.pc = "roll"
    /\ scan.i > Len(reference) - scan.length
    /\ scan' = [scan EXCEPT
                  !.pc = IF past_last_length(
                               scan.length + 1,
                               clamp_max_length(max_length_arg, Len(reference),
                                                Len(query)))
                         THEN "done" ELSE "length",
                  !.length = @ + 1]
    /\ UNCHANGED << inputs, pc, max_length, results, unique_sequences,
                    query_rev, task, outcome >>

NextScan ==
    \/ ScanFirstWindow
    \/ ScanRoll
    \/ ScanNextLength

SpecScan == InitScan /\ [][NextScan]_vars

(***************************************************************************)
(* Vocabulary of the properties.                                           *)
(***************************************************************************)
\* the call has returned its list
Returned == pc = "done" /\ outcome = "returned"

Records == {results[k] : k \in 1..Len(results)}

\* the sequence a record's query_positions index
comparison_sequence(r) ==
    IF r.reversed THEN reverse_complement(query) ELSE query

\* the start positions at which w occurs in s
Occurrences(w, s) ==
    {p \in 0..(Len(s) - Len(w)) : Slice(s, p, Len(w)) = w}

Elements(list) == {list[i] : i \in 1..Len(list)}

\* lines 106-114 as one function: the list the sequential path returns
find_repeats_sequential(ref, qry, min_len, max_len_arg) ==
    LET eff == clamp_max_length(max_len_arg, Len(ref), Len(qry))
        fwd == process_sequence(ref, qry, FALSE, << >>, min_len, eff, {})
        rev == process_sequence(ref, reverse_complement(qry), TRUE,
                                fwd.results, min_len, eff,
                                fwd.unique_sequences)
    IN  IF range_is_empty(min_len, eff) THEN << >>
        ELSE sort_by_length_desc(rev.results)

Triples(list) ==
    {<< list[k].sequence, list[k].reversed, list[k].repeat_count >> :
        k \in 1..Len(list)}

(***************************************************************************)
(* C1 - No false positives: every returned record's sequence is the       *)
(* window of reference at its reference position, and at each of its       *)
(* query_positions the window of the comparison sequence (query, or        *)
(* reverse_complement(query) for a reversed record) equals the sequence,   *)
(* whatever the hash values are.                                           *)
(***************************************************************************)
NoFalsePositives ==
    Returned =>
        \A r \in Records :
            /\ \A p \in Elements(r.ref_positions) :
                  Slice(reference, p, Len(r.sequence)) = r.sequence
            /\ \A q \in Elements(r.query_positions) :
                  /\ q + Len(r.sequence) <= Len(query)
                  /\ Slice(comparison_sequence(r), q, Len(r.sequence))
                        = r.sequence

\* a record was returned although a different window of the comparison
\* sequence has the same hash value as the record's sequence
CollisionFilteredWitness ==
    /\ Returned
    /\ \E r \in Records :
          \E q \in 0..(Len(query) - Len(r.sequence)) :
              LET w == Slice(comparison_sequence(r), q, Len(r.sequence))
              IN  /\ w # r.sequence
                  /\ hash_function(w, base_num, mod)
                        = hash_function(r.sequence, base_num, mod)

(***************************************************************************)
(* C2 - Single reference occurrence: the sequence of every returned       *)
(* record occurs at exactly one start position of reference.               *)
(***************************************************************************)
SingleReferenceOccurrence ==
    Returned =>
        \A r \in Records : Cardinality(Occurrences(r.sequence, reference)) = 1

(***************************************************************************)
(* C3 - Minimum multiplicity: every returned record has at least two      *)
(* query_positions and repeat_count = len(query_positions) - 1.            *)
(***************************************************************************)
MinimumMultiplicity ==
    Returned =>
        \A r \in Records :
            /\ Len(r.query_positions) >= 2
            /\ r.repeat_count = Len(r.query_positions) - 1

\* records with one and with more than one additional occurrence returned
MultiplicityWitness ==
    /\ Returned
    /\ \E r \in Records : r.repeat_count = 1
    /\ \E r \in Records : r.repeat_count >= 2

(***************************************************************************)
(* C4 - No containment duplicates: no two returned records of one         *)
(* orientation are such that one sequence is a proper substring of the     *)
(* other and the shorter record's reference position and query positions   *)
(* lie inside the windows the longer record occupies.                      *)
(***************************************************************************)
\* position p of a window of length n lies inside a window of length m at
\* one of the starts
InsideWindow(p, n, starts, m) ==
    \E s \in starts : s <= p /\ p + n <= s + m

Nested(short, long) ==
    /\ short.reversed = long.reversed
    /\ Len(short.sequence) < Len(long.sequence)
    /\ Occurrences(short.sequence, long.sequence) # {}
    /\ \A p \in Elements(short.ref_positions) :
          InsideWindow(p, Len(short.sequence), Elements(long.ref_positions),
                       Len(long.sequence))
    /\ \A q \in Elements(short.query_positions) :
          InsideWindow(q, Len(short.sequence), Elements(long.query_positions),
                       Len(long.sequence))

NoContainmentDuplicates ==
    Returned => \A a \in Records : \A b \in Records : ~ Nested(a, b)

(***************************************************************************)
(* C5 - Determinism under parallelism: the returned set of (sequence,     *)
(* orientation, repeat_count) triples is the set the sequential path       *)
(* returns for the same arguments, also when use_parallel is set and the   *)
(* two-thread path is taken.                                               *)
(***************************************************************************)
DeterminismUnderParallelism ==
    Returned =>
        Triples(results) =
            Triples(find_repeats_sequential(reference, query, min_length,
                                            max_length_arg))

(***************************************************************************)
(* C6 - The two orientation tasks do not interfere: the records a task    *)
(* has produced when it finishes are those the same pass produces when it  *)
(* runs alone with a seen set of its own, under every interleaving.        *)
(***************************************************************************)
TasksDoNotInterfere ==
    \A o \in Orientations :
        task[o].pc = "done" =>
            task[o].local_results =
                process_sequence(reference, task_query(o), task_reversed(o),
                                 << >>, min_length, max_length, {}).results

(***************************************************************************)
(* C7 - Ordering: the returned list is sorted by non-increasing           *)
(* len(sequence); records of equal length keep the order they had before   *)
(* the sort (their discovery order), with forward-pass records before      *)
(* reverse-pass records.                                                   *)
(***************************************************************************)
SortedByLengthDesc(list) ==
    \A i \in 1..Len(list) : \A j \in 1..Len(list) :
        i < j => Len(list[i].sequence) >= Len(list[j].sequence)

\* new is a rearrangement of old in which records of equal length keep
\* their relative order
StableRearrangement(old, new) ==
    /\ Len(new) = Len(old)
    /\ Elements(new) = Elements(old)
    /\ \A i \in 1..Len(new) : \A j \in 1..Len(new) : i # j => new[i] # new[j]
    /\ \A i \in 1..Len(old) : \A j \in 1..Len(old) :
          (i < j /\ Len(old[i].sequence) = Len(old[j].sequence))
              => \E a \in 1..Len(new) : \E b \in 1..Len(new) :
                    a < b /\ new[a] = old[i] /\ new[b] = old[j]

ForwardBeforeReverse(list) ==
    \A i \in 1..Len(list) : \A j \in 1..Len(list) :
        (i < j /\ Len(list[i].sequence) = Len(list[j].sequence))
            => ~ (list[i].reversed /\ ~ list[j].reversed)

Ordering ==
    [][(pc = "sort" /\ pc' = "done") =>
          /\ SortedByLengthDesc(results')
          /\ StableRearrangement(results, results')
          /\ ForwardBeforeReverse(results')]_vars

\* a returned list with records of different lengths in which a forward
\* record and a reversed record have the same length
OrderingWitness ==
    /\ Returned
    /\ \E i \in 1..Len(results) : \E j \in 1..Len(results) :
          Len(results[i].sequence) # Len(results[j].sequence)
    /\ \E i \in 1..Len(results) : \E j \in 1..Len(results) :
          /\ i < j
          /\ Len(results[i].sequence) = Len(results[j].sequence)
          /\ ~ results[i].reversed
          /\ results[j].reversed

(***************************************************************************)
(* C8 - No duplicate units: the returned list never holds two records     *)
(* with the same sequence, on the sequential path and on the thread path   *)
(* under every interleaving.                                               *)
(***************************************************************************)
NoDuplicateUnits ==
    Returned =>
        \A i \in 1..Len(results) : \A j \in 1..Len(results) :
            i # j => results[i].sequence # results[j].sequence

(***************************************************************************)
(* C9 - For a reversed record, every q in query_positions is a position   *)
(* of query itself at which reverse_complement(sequence) occurs.           *)
(***************************************************************************)
ReversedPositionsInQuery ==
    Returned =>
        \A r \in Records :
            r.reversed =>
                \A q \in Elements(r.query_positions) :
                    Slice(query, q, Len(r.sequence))
                        = reverse_complement(r.sequence)

(***************************************************************************)
(* C10 - Empty input is an error distinct from "no matches": a call with  *)
(* an empty reference or an empty query ends with an EmptyInput error      *)
(* outcome, not with the ordinary empty result list.                       *)
(***************************************************************************)
EmptyInput == reference = << >> \/ query = << >>

InvalidRange ==
    min_length <= 0 \/ (max_length_arg # None /\ max_length_arg <= 0)

InvalidRangeRejected ==
    (pc = "done" /\ InvalidRange) =>
        /\ outcome = "InvalidRange"
        /\ results = << >>

(***************************************************************************)
(* C12 - Length-1 windows are never reported: no returned record has a     *)
(* sequence of length 1, also when the call is made with min_length = 1.   *)
(***************************************************************************)
NoLengthOneRecords ==
    Returned => \A r \in Records : Len(r.sequence) # 1

(***************************************************************************)
(* C13 - Length bounds: with effective_max = min(len(reference),           *)
(* len(query)) when max_length is omitted and min(max_length,              *)
(* len(reference), len(query)) otherwise, every returned record has        *)
(* min_length <= len(sequence) <= effective_max, and the upper bound is    *)
(* inclusive: a window of reference of length effective_max that occurs    *)
(* at least twice in query is searched and returned.                       *)
(***************************************************************************)
EffectiveMax ==
    IF max_length_arg = None THEN Min2(Len(reference), Len(query))
    ELSE Min2(max_length_arg, Min2(Len(reference), Len(query)))

EmptyRangeReturnsEmptyList ==
    (pc = "done" /\ min_length > EffectiveMax) =>
        /\ outcome = "returned"
        /\ results = << >>
        /\ unique_sequences = {}
        /\ query_rev = << >>
        /\ \A o \in Orientations : task[o].pc = "idle"

\* a call with non-empty sequences and a caller-supplied max_length that are
\* all exceeded by min_length has returned
EmptyRangeWitness ==
    /\ Returned
    /\ reference # << >>
    /\ query # << >>
    /\ max_length_arg # None
    /\ max_length_arg > Min2(Len(reference), Len(query))
    /\ min_length > EffectiveMax
    /\ min_length <= max_length_arg

(***************************************************************************)
(* C16 - Query positions are in increasing order: the query_positions of   *)
(* every returned record are strictly increasing.                          *)
(***************************************************************************)
StrictlyIncreasing(list) ==
    \A i \in 1..Len(list) : \A j \in 1..Len(list) :
        i < j => list[i] < list[j]

QueryPositionsIncreasing ==
    Returned => \A r \in Records : StrictlyIncreasing(r.query_positions)

\* a forward and a reversed record with three or more query positions, not
\* all adjacent, have been returned
QueryPositionsWitness ==
    /\ Returned
    /\ \E r \in Records :
          /\ ~ r.reversed
          /\ Len(r.query_positions) >= 3
          /\ \E i \in 1..(Len(r.query_positions) - 1) :
                r.query_positions[i + 1] > r.query_positions[i] + 1
    /\ \E r \in Records : r.reversed /\ Len(r.query_positions) >= 3

(***************************************************************************)
(* C17 - Example 1: find_repeats_hash_dp("ACGTACGT", "ACGTACGTACGTACGT",   *)
(* min_length=4) returns a list that contains a forward record with        *)
(* sequence "ACGTACGT", reference position 0 and repeat_count >= 1.        *)
(***************************************************************************)
Example1Call ==
    /\ reference = Example1Reference
    /\ query = Example1Query
    /\ min_length = 4
    /\ max_length_arg = None

Example1Found ==
    (Returned /\ Example1Call) =>
        \E r \in Records :
            /\ r.sequence = Example1Reference
            /\ Elements(r.ref_positions) = {0}
            /\ ~ r.reversed
            /\ r.repeat_count >= 1

\* the call of example 1 has returned, the whole reference being found at
\* the query positions 0, 4 and 8
Example1Witness ==
    /\ Returned
    /\ Example1Call
    /\ \E r \in Records :
          r.sequence = Example1Reference /\ r.query_positions = << 0, 4, 8 >>

(***************************************************************************)
(* C18 - Example 2: for reference = "AACCGGTT" and query =                 *)
(* reverse_complement("AACCGGTT") + reverse_complement("AACCGGTT") the     *)
(* returned list contains exactly one reversed record; its sequence occurs *)
(* exactly once in reference and its reverse complement tiles query.       *)
(***************************************************************************)
Example2Call ==
    /\ reference = Example2Reference
    /\ query = Example2Query
    /\ min_length = DefaultMinLength
    /\ max_length_arg = None

\* s is u repeated a whole number of times
IsTiling(u, s) ==
    /\ Len(u) > 0
    /\ Len(s) % Len(u) = 0
    /\ s = Tile(u, Len(s))

Example2OneReversedRecord ==
    (Returned /\ Example2Call) =>
        LET reversed_records == {r \in Records : r.reversed}
        IN  /\ Cardinality(reversed_records) = 1
            /\ \A r \in reversed_records :
                  /\ Cardinality(Occurrences(r.sequence, reference)) = 1
                  /\ IsTiling(reverse_complement(r.sequence), query)

(***************************************************************************)
(* C15 - The early-stop heuristic does not change results: the set of      *)
(* returned records is the set the same search returns with the           *)
(* early-stop test removed; no window length between min_length and the    *)
(* effective max_length is left unsearched in either orientation.          *)
(***************************************************************************)
RECURSIVE search_every_length(_, _, _, _, _, _)
\* the length loop of process_sequence without the test of line 165
search_every_length(st, ref, seq, is_reversed, length, max_len) ==
    IF Len(st.results) < 0 \/ past_last_length(length, max_len) THEN st
    ELSE search_every_length(process_length(st, ref, seq, is_reversed, length),
                             ref, seq, is_reversed, length + 1, max_len)

\* the records of the sequential search without early stop
records_without_early_stop(ref, qry, min_len, max_len_arg) ==
    LET eff == clamp_max_length(max_len_arg, Len(ref), Len(qry))
        fwd == search_every_length([results |-> << >>, unique_sequences |-> {}],
                                   ref, qry, FALSE, min_len, eff)
        rev == search_every_length(fwd, ref, reverse_complement(qry), TRUE,
                                   min_len, eff)
    IN  IF range_is_empty(min_len, eff) THEN {} ELSE Elements(rev.results)

EarlyStopPreservesResults ==
    Returned =>
        Records = records_without_early_stop(reference, query, min_length,
                                             max_length_arg)

(***************************************************************************)
(* C19: for every window after the first, rolling_hash applied to the      *)
(* direct hash of the window one position to the left, the symbol leaving  *)
(* and the symbol entering, equals hash_function of the window itself; and *)
(* every value of hash_function and rolling_hash lies in 0..mod-1.         *)
(***************************************************************************)
\* the window the scan has just hashed
ScanWindow == Slice(reference, scan.i - 1, scan.length)

RollingHashAgrees ==
    scan.pc = "roll" =>
        /\ scan.curr_hash = hash_function(ScanWindow, base_num, mod)
        /\ scan.curr_hash \in 0..(mod - 1)
        /\ scan.i <= Len(reference) - scan.length =>
              LET left == hash_function(ScanWindow, base_num, mod)
                  next == rolling_hash(left, reference[scan.i],
                                       reference[scan.i + scan.length],
                                       scan.length, base_num, mod)
              IN  /\ next = hash_function(
                               Slice(reference, scan.i, scan.length),
                               base_num, mod)
                  /\ left \in 0..(mod - 1)
                  /\ next \in 0..(mod - 1)

\* a hash obtained by rolling, from a window whose hash was smaller than
\* the weight of the leaving symbol (the subtraction went below zero)
RollingHashWitness ==
    /\ scan.pc = "roll"
    /\ scan.i >= 2
    /\ hash_function(Slice(reference, scan.i - 2, scan.length), base_num, mod)
         < MulMod(BASE_VAL(reference[scan.i - 1]),
                  PowMod(base_num, scan.length - 1, mod), mod)
    /\ scan.curr_hash = hash_function(ScanWindow, base_num, mod)

(***************************************************************************)
(* C20: once the scan of a length L is over, every start 0..len-L is in    *)
(* exactly one list of the index, the one under the hash of its window; no *)
(* other position is in the index; each list is in increasing order; and   *)
(* nothing entered for the previous length remains.                        *)
(***************************************************************************)
\* the scan of scan.length is over
ScanOver == scan.pc = "roll" /\ scan.i > Len(reference) - scan.length

ExactIndex(index, sequence, length) ==
    LET starts == 0..(Len(sequence) - length)
        holders(p) == {j \in 1..Len(index) :
                          p \in Elements(index[j].positions)}
    IN  /\ \A p \in starts :
              /\ Cardinality(holders(p)) = 1
              /\ \A j \in holders(p) :
                    index[j].hash =
                        hash_function(Slice(sequence, p, length), base_num, mod)
        /\ \A j \in 1..Len(index) :
              /\ index[j].positions # << >>
              /\ Elements(index[j].positions) \subseteq starts
              /\ StrictlyIncreasing(index[j].positions)
              /\ \A k \in 1..Len(index) :
                    index[k].hash = index[j].hash => k = j

WindowIndexExact ==
    ScanOver =>
        /\ ExactIndex(scan.ref_hash_map, reference, scan.length)
        /\ scan.ref_hash_map
             = build_index(reference, scan.length, base_num, mod)

\* the index of a second or later length, with a list of several positions
\* and with several lists
WindowIndexWitness ==
    /\ ScanOver
    /\ scan.length >= 2
    /\ Len(scan.ref_hash_map) >= 2
    /\ \E j \in 1..Len(scan.ref_hash_map) :
          Len(scan.ref_hash_map[j].positions) >= 2
    /\ ExactIndex(scan.ref_hash_map, reference, scan.length)

(***************************************************************************)
(* C21: hash collisions never affect the output.  With the window hash     *)
(* replaced by one of a tiny modulus (many different windows collide; with *)
(* modulus 1 the hash is constant), process_sequence called on the same    *)
(* arguments produces the same set of records: a failed comparison only    *)
(* excludes that query position, the rest of the search goes on.           *)
(***************************************************************************)
TinyModuli == {1, 2, 3}

\* the call took the sequential path
Sequential == ~ takes_thread_path(use_parallel, max_length)

\* the forward pass of the sequential path, as it was called
forward_pass ==
    process_sequence(reference, query, FALSE, << >>, min_length, max_length,
                     {})

HashIndependent ==
    \A m \in TinyModuli :
        /\ pc = "seq_reverse" =>
              Elements(results) = Elements(
                  process_sequence_hashed(reference, query, FALSE, << >>,
                      min_length, max_length, {}, base_num, m).results)
        /\ pc = "sort" /\ Sequential =>
              Elements(results) = Elements(
                  process_sequence_hashed(reference, query_rev, TRUE,
                      forward_pass.results, min_length, max_length,
                      forward_pass.unique_sequences, base_num, m).results)

\* two different windows of one length, the first in reference and the
\* second in the comparison sequence, that hash_function maps to one value
\* modulo m
Collide(seq, length, m) ==
    \E p \in 0..(Len(reference) - length), q \in 0..(Len(seq) - length) :
        /\ Slice(reference, p, length) # Slice(seq, q, length)
        /\ hash_function(Slice(reference, p, length), base_num, m)
             = hash_function(Slice(seq, q, length), base_num, m)

\* both passes are over, each met a collision under every tiny modulus at
\* a length at which it also produced a record
HashIndependentWitness ==
    /\ pc = "sort"
    /\ Sequential
    /\ \E r \in Elements(results) :
          /\ ~ r.reversed
          /\ \A m \in TinyModuli : Collide(query, Len(r.sequence), m)
    /\ \E r \in Elements(results) :
          /\ r.reversed
          /\ \A m \in TinyModuli : Collide(query_rev, Len(r.sequence), m)

(***************************************************************************)
(* C22: reverse_complement keeps the length, its symbol at index i is the  *)
(* complement of the symbol at index len-1-i of its argument (A<->T,       *)
(* C<->G, any other symbol unchanged), and applying it twice gives the     *)
(* argument back, also for arguments with symbols outside A, C, G, T.      *)
(***************************************************************************)
BasePairs == {{"A", "T"}, {"C", "G"}}

\* the other base of the pair of x; x itself when x is in no pair
Partner(x) ==
    IF \E pair \in BasePairs : x \in pair
    THEN CHOOSE y \in UNION BasePairs : y # x /\ {x, y} \in BasePairs
    ELSE x

\* query_rev holds reverse_complement(query)
ReverseComplemented == pc \in {"join", "sort"}

ReverseComplementInvolution ==
    ReverseComplemented =>
        /\ Len(query_rev) = Len(query)
        /\ \A i \in 0..(Len(query) - 1) :
              query_rev[i + 1] = Partner(query[Len(query) - i])
        /\ reverse_complement(query_rev) = query

\* the reverse complement of a query that holds a base and a symbol
\* outside A, C, G, T and that differs from query
ReverseComplementWitness ==
    /\ ReverseComplemented
    /\ \E i, j \in 1..Len(query) :
          /\ query[i] \in UNION BasePairs
          /\ query[j] \notin UNION BasePairs
    /\ query_rev # query
    /\ reverse_complement(query_rev) = query

(***************************************************************************)
(* C23: every returned record has exactly one element in ref_positions,    *)
(* the smallest start position at which its sequence occurs in reference;  *)
(* later occurrences neither replace it nor are added to it, on the        *)
(* sequential and on the thread path.                                      *)
(***************************************************************************)
\* the smallest element of a non-empty set of positions
Smallest(positions) == CHOOSE p \in positions : \A q \in positions : p <= q

FirstReferenceOccurrence ==
    Returned =>
        \A r \in Records :
            /\ Len(r.ref_positions) = 1
            /\ Occurrences(r.sequence, reference) # {}
            /\ r.ref_positions[1]
                 = Smallest(Occurrences(r.sequence, reference))

\* a record of a sequence that occurs several times in reference, returned
\* by the thread path
FirstReferenceOccurrenceWitness ==
    /\ Returned
    /\ ~ Sequential
    /\ \E r \in Records :
          /\ Cardinality(Occurrences(r.sequence, reference)) >= 2
          /\ r.ref_positions
               = << Smallest(Occurrences(r.sequence, reference)) >>

(***************************************************************************)
(* C24: on sequences unique in reference the hash-based search agrees with *)
(* the brute-force search.  For min_length >= 2, the sequential path and   *)
(* at most 100 records, the (sequence, reversed, query_positions) of the   *)
(* returned records whose sequence occurs exactly once in reference are    *)
(* the (sequence, reversed, positions) of the records of                   *)
(* find_repeats_brute_force on the same arguments; and in neither list is  *)
(* a sequence reported both forward and reversed.                          *)
(***************************************************************************)
brute_records ==
    Elements(find_repeats_brute_force(reference, query, min_length,
                                      max_length_arg))

\* no sequence is in the set both as forward and as reversed
OneOrientation(records) ==
    \A r1 \in records, r2 \in records :
        r1.sequence = r2.sequence => r1.reversed = r2.reversed

\* the calls the comparison is about
Comparable ==
    /\ Returned
    /\ Sequential
    /\ min_length >= 2
    /\ Len(results) <= EarlyStopCount

AgreesWithBruteForce ==
    Comparable =>
        /\ {<< r.sequence, r.reversed, r.query_positions >> :
                r \in {x \in Records :
                          Cardinality(Occurrences(x.sequence, reference)) = 1}}
             = {<< r.sequence, r.reversed, r.positions >> : r \in brute_records}
        /\ OneOrientation(Records)
        /\ OneOrientation(brute_records)

\* both searches report a forward and a reversed record, and the hash-based
\* one also a record that occurs several times in reference
AgreesWithBruteForceWitness ==
    /\ Comparable
    /\ \E r \in brute_records : r.reversed
    /\ \E r \in brute_records : ~ r.reversed
    /\ \E r \in Records :
          Cardinality(Occurrences(r.sequence, reference)) >= 2
    /\ \E r \in Records :
          /\ r.reversed
          /\ Cardinality(Occurrences(r.sequence, reference)) = 1

====
